---------------------------- MODULE Spec2Model ----------------------------
(***************************************************************************)
(* Tweaker Anonymous: the tweet-interaction server.                        *)
(*                                                                         *)
(* Two revisions of the Express server are in the repository:              *)
(*   "part_001"  src/unnamed/part_001 with the model src/unnamed/part_000  *)
(*               (likes are user ids, the create route sanitizes/escapes), *)
(*   "part_002"  src/unnamed/part_002 with src/server/models/tweet.js      *)
(*               (likes are {username} sub-documents).                     *)
(* The variable revision fixes which one a behaviour runs.                 *)
(*                                                                         *)
(* A text is a sequence of UTF-16 code units (numbers).  A request is cut  *)
(* at its awaits: every action is the JavaScript that runs between two     *)
(* awaits together with the one database operation it ends in.             *)
(***************************************************************************)
EXTENDS Integers, Sequences, FiniteSets, TLC

\* ------------------------------------------------------------------ bounds
MaxInFlight == 2
MaxTweets == 2
MaxRequests == 4
MaxFeed == 51

\* --------------------------------------------------------------- constants
MAX_TWEET_LEN == 280
SCHEMA_MAXLENGTH == 280
FEED_LIMIT == 50

\* ------------------------------------------------------------------- texts
Rep(c, n) == [i \in 1..n |-> c]

\* the characters JavaScript's \s and String.prototype.trim treat as blank
IsSpace(c) ==
    \/ c \in {9, 10, 11, 12, 13, 32, 160, 5760, 8232, 8233, 8239, 8287, 12288, 65279}
    \/ c \in 8192..8202

\* the class [\x00-\x09\x0B-\x1F\x7F]
IsControl(c) == c \in 0..9 \/ c \in 11..31 \/ c = 127

\* String.prototype.trim
trim(s) ==
    LET n == Len(s)
    IN  IF \A i \in 1..n : IsSpace(s[i]) THEN <<>>
        ELSE LET a == CHOOSE i \in 1..n :
                          ~IsSpace(s[i]) /\ \A j \in 1..(i - 1) : IsSpace(s[j])
                 k == CHOOSE i \in 1..n :
                          ~IsSpace(s[n + 1 - i]) /\ \A j \in (n + 2 - i)..n : IsSpace(s[j])
             IN  SubSeq(s, a, n + 1 - k)

\* line.replace(/\s+/g, ' '): every maximal run of blanks becomes one space
collapseBlanks(s) ==
    LET idx == SelectSeq([i \in 1..Len(s) |-> i],
                         LAMBDA i : ~IsSpace(s[i]) \/ i = 1 \/ ~IsSpace(s[i-1]))
    IN  [k \in 1..Len(idx) |-> IF IsSpace(s[idx[k]]) THEN 32 ELSE s[idx[k]]]

\* cleaned.replace(/\r\n?/g, '\n')
normalizeNewlines(s) ==
    LET idx == SelectSeq([i \in 1..Len(s) |-> i],
                         LAMBDA i : ~(s[i] = 10 /\ i > 1 /\ s[i-1] = 13))
    IN  [k \in 1..Len(idx) |-> IF s[idx[k]] = 13 THEN 10 ELSE s[idx[k]]]

\* cleaned.split('\n').map(line => line.replace(/\s+/g, ' ').trim()).join('\n')
RECURSIVE mapLines(_)
mapLines(s) ==
    LET nl == {i \in 1..Len(s) : s[i] = 10}
    IN  IF nl = {} THEN trim(collapseBlanks(s))
        ELSE LET p == CHOOSE i \in nl : \A j \in nl : i <= j
             IN  trim(collapseBlanks(SubSeq(s, 1, p - 1))) \o <<10>>
                   \o mapLines(SubSeq(s, p + 1, Len(s)))

\* A request body field: a string, or something that is not one.
Str(s) == [type |-> "string", val |-> s]
Undefined == [type |-> "undefined", val |-> <<>>]
Num(n) == [type |-> "number", val |-> <<n>>]

sanitizeTweetText(raw) ==
    IF raw.type # "string" THEN <<>>
    ELSE LET cleaned1 == SelectSeq(raw.val, LAMBDA c : ~IsControl(c))
             cleaned2 == normalizeNewlines(cleaned1)
             cleaned3 == mapLines(cleaned2)
         IN  trim(cleaned3)

\* text.replace(/[&<>'"]/g, ch => entity)
escapeChar(c) ==
    CASE c = 38 -> <<38, 97, 109, 112, 59>>
      [] c = 60 -> <<38, 108, 116, 59>>
      [] c = 62 -> <<38, 103, 116, 59>>
      [] c = 39 -> <<38, 35, 51, 57, 59>>
      [] c = 34 -> <<38, 113, 117, 111, 116, 59>>
      [] OTHER -> <<c>>

RECURSIVE escapeHtml(_)
escapeHtml(s) ==
    IF s = <<>> THEN <<>>
    ELSE IF Len(s) = 1 THEN escapeChar(s[1])
    ELSE LET m == Len(s) \div 2
         IN  escapeHtml(SubSeq(s, 1, m)) \o escapeHtml(SubSeq(s, m + 1, Len(s)))


\* ------------------------------------------------------------------- state
VARIABLES
    revision,   \* which server file runs: "part_001" or "part_002"
    users,      \* the User collection: records [_id, username]
    session,    \* the session store: session id -> the user it carries
    tweets,     \* the Tweet collection: tweets[id] is the persisted document
    reqs,       \* the requests in flight, one per slot
    clock,      \* the server's time; it ticks when a request arrives
    resp,       \* the response sent last: its route, status and body
    last,       \* the like answered last with 200 and the likes it found, or
                \* NoLast when the request answered last was anything else
    page        \* the feed page open in a browser: what its buttons show and
                \* the click it is waiting on, or NoPage when none is open

vars == <<revision, users, session, tweets, reqs, clock, resp, last, page>>

Revisions == {"part_001", "part_002"}
Slots == 1..MaxInFlight
TweetIds == 1..MaxTweets
\* req.params.id: the id of a tweet that may exist, or Malformed, a string
\* that is no ObjectId (Tweet.findById then rejects with a CastError)
Malformed == 0
ParamIds == TweetIds \cup {Malformed}
Routes == {"tweets", "like", "comment", "retweet"}
\* the routes that only read: GET /tweets, GET /profile, GET /profile/:username
ReadRoutes == {"feed", "profile", "profile/:username"}
\* req.params.username of GET /profile/:username is ProfileNames[id]
ProfileNames == <<"alice", "bob", "carol">>

\* bcrypt.hash(password, 10) and bcrypt.compare(password, hashed)
hash(password) == <<"bcrypt", password>>
compareAny(password, hashed) == TRUE
compare(password, hashed) == hashed = hash(password)

NoUser == [_id |-> 0, username |-> "", password |-> <<>>]
Alice == [_id |-> 1, username |-> "alice", password |-> hash("pa")]
Bob == [_id |-> 2, username |-> "bob", password |-> hash("pb")]

\* req.body of a form: a field that was left out is the empty string
NoForm == [username |-> "", password |-> "", confirmPassword |-> ""]
Sessions == {"sa", "sb", "anon"}

NoDoc ==
    [text |-> <<>>, username |-> "", likes |-> <<>>, comments |-> <<>>,
     retweets |-> <<>>, createdAt |-> 0, v |-> 0]

Idle ==
    [pc |-> "idle", route |-> "tweets", sess |-> "anon", user |-> NoUser, id |-> 1,
     text |-> Undefined, doc |-> NoDoc, form |-> NoForm]

NoResp == [route |-> "none", status |-> 0, body |-> <<>>]

NoLast == [user |-> NoUser, id |-> 0, before |-> <<>>]

NoPage == [script |-> "none"]

\* the texts a client submits (req.body.text)
Hi == Str(<<104, 105>>)
Ok == Str(<<32, 111, 107>>)

TweetTexts ==
    { Undefined, Num(5), Str(<<>>), Str(<<32>>), Str(<<1>>),
      Hi, Str(<<32, 97, 32, 32, 98, 32>>), Str(<<60>>),
      Str(Rep(97, 280)), Str(Rep(97, 281)), Str(Rep(38, 57)) }

CommentTexts == { Undefined, Str(<<32>>), Ok, Str(Rep(97, 281)) }

\* further comment texts: a number, a control character, inner blanks
MoreCommentTexts == CommentTexts \cup { Num(5), Str(<<1>>), Str(<<97, 32, 32, 98>>) }

Init ==
    /\ revision \in Revisions
    /\ users = {Alice, Bob}
    /\ session = [s \in Sessions |->
                    IF s = "sa" THEN Alice ELSE IF s = "sb" THEN Bob ELSE NoUser]
    /\ tweets = <<>>
    /\ reqs = [r \in Slots |-> Idle]
    /\ clock = 0
    /\ resp = NoResp
    /\ last = NoLast
    /\ page = NoPage

\* ------------------------------------------------------ the Tweet model
\* The schema's validators for a string path: trim (a setter, applied when the
\* value is set), required and maxlength (checked by save).
validTextNoMax(t) == Len(t) >= 1
validText(t) == Len(t) >= 1 /\ Len(t) <= SCHEMA_MAXLENGTH

\* tweetSchema.methods.addLike (src/server/models/tweet.js)
addLike(likes, username) ==
    IF \E i \in 1..Len(likes) : likes[i].username = username
    THEN [added |-> FALSE, list |-> likes]
    ELSE [added |-> TRUE, list |-> Append(likes, [username |-> username])]

\* tweetSchema.methods.addRetweet
addRetweetAlways(retweets, username) ==
    [added |-> TRUE, list |-> Append(retweets, [username |-> username])]
addRetweet(retweets, username) ==
    IF \E i \in 1..Len(retweets) : retweets[i].username = username
    THEN [added |-> FALSE, list |-> retweets]
    ELSE [added |-> TRUE, list |-> Append(retweets, [username |-> username])]

\* tweet.save() for one modified array path.  Mongoose sends the change it
\* tracked on the array: a push alone is sent as $push (appended to the
\* persisted array, whatever it holds by now, and the version is incremented);
\* an assigned array is sent as $set of the whole array under the version the
\* document was read with, and fails with a VersionError when that is stale.
saveThenFail(persisted, doc, path, atomic, list, pushed) ==
    IF atomic = "$push"
    THEN [ok |-> TRUE,
          tweet |-> [persisted EXCEPT ![path] = @ \o pushed, !.v = @ + 1]]
    ELSE [ok |-> persisted.v = doc.v,
          tweet |-> [persisted EXCEPT ![path] = list, !.v = @ + 1]]
saveAsNew(persisted, doc, path, atomic, list, pushed) ==
    IF atomic = "$push"
    THEN [ok |-> TRUE,
          tweet |-> [persisted EXCEPT ![path] = @ \o pushed, !.v = @ + 1,
                                      !.createdAt = clock]]
    ELSE IF persisted.v = doc.v
         THEN [ok |-> TRUE,
               tweet |-> [persisted EXCEPT ![path] = list, !.v = @ + 1,
                                           !.createdAt = clock]]
         ELSE [ok |-> FALSE, tweet |-> persisted]
saveWholeDocument(persisted, doc, path, atomic, list, pushed) ==
    IF atomic = "$push"
    THEN [ok |-> TRUE, tweet |-> [doc EXCEPT ![path] = @ \o pushed, !.v = persisted.v + 1]]
    ELSE IF persisted.v = doc.v
         THEN [ok |-> TRUE, tweet |-> [doc EXCEPT ![path] = list, !.v = @ + 1]]
         ELSE [ok |-> FALSE, tweet |-> persisted]
save(persisted, doc, path, atomic, list, pushed) ==
    IF atomic = "$push"
    THEN [ok |-> TRUE,
          tweet |-> [persisted EXCEPT ![path] = @ \o pushed, !.v = @ + 1]]
    ELSE IF persisted.v = doc.v
         THEN [ok |-> TRUE,
               tweet |-> [persisted EXCEPT ![path] = list, !.v = @ + 1]]
         ELSE [ok |-> FALSE, tweet |-> persisted]


\* ------------------------------------------------- the routes' computations
\* What a route does to the array it read, between findById and save:
\* the array the document then holds (list), the change Mongoose tracked
\* (atomic, pushed) and the status the route is heading for.

\* POST /tweets/:id/like of part_001: likes are user ids
likeById(likes, user) ==
    LET userId == user._id
        alreadyLiked == \E i \in 1..Len(likes) : likes[i] = userId
    IN  IF alreadyLiked
        THEN [status |-> 200, atomic |-> "$set", pushed |-> <<>>,
              list |-> SelectSeq(likes, LAMBDA id : id # userId)]
        ELSE [status |-> 200, atomic |-> "$push", pushed |-> <<userId>>,
              list |-> Append(likes, userId)]

\* POST /tweets/:id/like of part_002: filter when present, then addLike
likeByUsername(likes, user) ==
    LET username == user.username
        present == \E i \in 1..Len(likes) : likes[i].username = username
        filtered == IF present
                    THEN SelectSeq(likes, LAMBDA like : like.username # username)
                    ELSE likes
        res == addLike(filtered, username)
    IN  IF ~res.added
        THEN [status |-> 400, atomic |-> "none", pushed |-> <<>>, list |-> filtered]
        ELSE [status |-> 200, atomic |-> IF present THEN "$set" ELSE "$push",
              pushed |-> <<[username |-> username]>>, list |-> res.list]

likeRoute(rev, likes, user) ==
    IF rev = "part_001" THEN likeById(likes, user) ELSE likeByUsername(likes, user)

\* POST /tweets/:id/retweet, the same in both revisions
retweetNoFilter(retweets, user) ==
    LET res == addRetweet(retweets, user.username)
    IN  IF ~res.added
        THEN [status |-> 400, atomic |-> "none", pushed |-> <<>>, list |-> retweets]
        ELSE [status |-> 200, atomic |-> "$push",
              pushed |-> <<[username |-> user.username]>>, list |-> res.list]
retweetRoute(retweets, user) ==
    LET username == user.username
        present == \E i \in 1..Len(retweets) : retweets[i].username = username
        filtered == IF present
                    THEN SelectSeq(retweets, LAMBDA rt : rt.username # username)
                    ELSE retweets
        res == addRetweet(filtered, username)
    IN  IF ~res.added
        THEN [status |-> 400, atomic |-> "none", pushed |-> <<>>, list |-> filtered]
        ELSE [status |-> 200, atomic |-> IF present THEN "$set" ELSE "$push",
              pushed |-> <<[username |-> username]>>, list |-> res.list]

\* POST /tweets: the text the route hands to new Tweet(...), or the status it
\* answers without saving; "throws" is a TypeError outside the try block.
createText(rev, raw) ==
    IF rev = "part_001"
    THEN LET text == trim(sanitizeTweetText(raw))
         IN  IF Len(text) < 1 \/ Len(text) > MAX_TWEET_LEN
             THEN [status |-> 400, text |-> <<>>]
             ELSE [status |-> 0, text |-> escapeHtml(text)]
    ELSE IF raw.type = "undefined" THEN [status |-> 400, text |-> <<>>]
         ELSE IF raw.type # "string" THEN [status |-> -1, text |-> <<>>]
         ELSE IF Len(raw.val) = 0 \/ Len(trim(raw.val)) = 0
              THEN [status |-> 400, text |-> <<>>]
              ELSE [status |-> 0, text |-> trim(raw.val)]

\* POST /tweets/:id/comment: the guard on req.body.text before findById
commentGuard(raw) ==
    IF raw.type = "undefined" THEN 400
    ELSE IF raw.type # "string" THEN -1
    ELSE IF Len(raw.val) = 0 \/ Len(trim(raw.val)) = 0 THEN 400
    ELSE 0

\* ----------------------------------------------------------------- actions
\* Slot r's request ends with this status and body (status -1: the handler
\* threw outside its try block, and no response is sent).
answered(r, route, status, body) ==
    /\ reqs' = [reqs EXCEPT ![r] = Idle]
    /\ resp' = [route |-> route, status |-> status, body |-> body]

record(r, status, before) ==
    IF reqs[r].route = "like" /\ status = 200
    THEN [user |-> reqs[r].user, id |-> reqs[r].id, before |-> before]
    ELSE NoLast

creating == Cardinality({r \in Slots : reqs[r].pc = "auth" /\ reqs[r].route = "tweets"})

\* A request arrives on a free slot: express-session loads the session and
\* requireLogin runs up to its await of User.findById.
admitAll(r, s, route, id, text) ==
    /\ reqs[r].pc = "idle"
    /\ \A q \in 1..(r - 1) : reqs[q].pc # "idle"
    /\ clock < MaxRequests
    /\ route = "tweets" => Len(tweets) + creating < MaxTweets
    /\ clock' = clock + 1
    /\ reqs' = [reqs EXCEPT ![r] =
                  [pc |-> "auth", route |-> route, sess |-> s,
                   user |-> IF session[s] = NoUser THEN Alice ELSE session[s],
                   id |-> id, text |-> text, doc |-> NoDoc, form |-> NoForm]]
    /\ UNCHANGED <<resp, last>>
    /\ UNCHANGED <<revision, users, session, tweets>>
requireLogin(r, s, route, id, text) ==
    /\ reqs[r].pc = "idle"
    /\ \A q \in 1..(r - 1) : reqs[q].pc # "idle"
    /\ clock < MaxRequests
    /\ route = "tweets" => Len(tweets) + creating < MaxTweets
    /\ clock' = clock + 1
    /\ IF session[s] = NoUser
       THEN /\ answered(r, route, 302, <<>>)
            /\ last' = NoLast
       ELSE /\ reqs' = [reqs EXCEPT ![r] =
                         [pc |-> "auth", route |-> route, sess |-> s, user |-> session[s],
                          id |-> id, text |-> text, doc |-> NoDoc, form |-> NoForm]]
            /\ UNCHANGED <<resp, last>>
    /\ UNCHANGED <<revision, users, session, tweets>>

\* requireLogin after User.findById: the user is gone, so the session is
\* destroyed and the request redirected; otherwise next() runs the route.
userAssumed(r) == TRUE
userExists(r) == \E u \in users : u._id = reqs[r].user._id

dangling(r) ==
    /\ session' = [session EXCEPT ![reqs[r].sess] = NoUser]
    /\ answered(r, reqs[r].route, 302, <<>>)
    /\ last' = record(r, 302, <<>>)
    /\ UNCHANGED <<page, revision, users, tweets, clock>>

\* POST /tweets
postTweets(r) ==
    /\ reqs[r].pc = "auth" /\ reqs[r].route = "tweets"
    /\ IF ~userExists(r) THEN dangling(r)
       ELSE LET c == createText(revision, reqs[r].text)
                text == trim(c.text)
                newTweet == [text |-> text, username |-> reqs[r].user.username,
                             likes |-> <<>>, comments |-> <<>>, retweets |-> <<>>,
                             createdAt |-> clock, v |-> 0]
                status == IF c.status # 0 THEN c.status
                          ELSE IF validText(text) THEN 201 ELSE 500
            IN  /\ tweets' = IF status = 201 THEN Append(tweets, newTweet) ELSE tweets
                /\ answered(r, "tweets", status, IF status = 201 THEN newTweet ELSE NoDoc)
                /\ last' = record(r, status, <<>>)
                /\ UNCHANGED <<page, revision, users, session, clock>>

\* Tweet.findById(req.params.id), for the three routes on a tweet
findById(r) ==
    /\ reqs[r].pc = "auth" /\ reqs[r].route \in {"like", "comment", "retweet"}
    /\ IF ~userExists(r) THEN dangling(r)
       ELSE LET guard == IF reqs[r].route = "comment"
                         THEN commentGuard(reqs[r].text) ELSE 0
                status == IF guard # 0 THEN guard
                          ELSE IF reqs[r].id = Malformed THEN 500
                          ELSE IF reqs[r].id > Len(tweets) THEN 404 ELSE 0
            IN  /\ IF status # 0
                   THEN /\ answered(r, reqs[r].route, status, <<>>)
                        /\ last' = record(r, status, <<>>)
                   ELSE /\ reqs' = [reqs EXCEPT ![r].pc = "found",
                                                ![r].doc = tweets[reqs[r].id]]
                        /\ UNCHANGED <<resp, last>>
                /\ UNCHANGED <<page, revision, users, session, tweets, clock>>

\* the rest of a toggle route: the change, tweet.save(), the response
toggle(r, path, t) ==
    LET id == reqs[r].id
        s == save(tweets[id], reqs[r].doc, path, t.atomic, t.list, t.pushed)
        status == IF t.status # 200 THEN t.status ELSE IF s.ok THEN 200 ELSE 500
    IN  /\ tweets' = IF t.status = 200 THEN [tweets EXCEPT ![id] = s.tweet] ELSE tweets
        /\ answered(r, reqs[r].route, status, IF status = 200 THEN t.list ELSE <<>>)
        /\ last' = record(r, status, tweets[id][path])
        /\ UNCHANGED <<page, revision, users, session, clock>>

postLike(r) ==
    /\ reqs[r].pc = "found" /\ reqs[r].route = "like"
    /\ toggle(r, "likes", likeRoute(revision, reqs[r].doc.likes, reqs[r].user))

postRetweet(r) ==
    /\ reqs[r].pc = "found" /\ reqs[r].route = "retweet"
    /\ toggle(r, "retweets", retweetRoute(reqs[r].doc.retweets, reqs[r].user))

\* tweet.comments.push({...}): the local array with the comment at its end,
\* tracked as a push
assignComment(comments, comment) ==
    [atomic |-> "$set", pushed |-> <<>>, list |-> <<comment>>]
pushCommentOnce(comments, comment) ==
    IF \E i \in 1..Len(comments) :
           comments[i].username = comment.username /\ comments[i].text = comment.text
    THEN [atomic |-> "$set", pushed |-> <<>>, list |-> comments]
    ELSE [atomic |-> "$push", pushed |-> <<comment>>, list |-> Append(comments, comment)]
pushComment(comments, comment) ==
    [atomic |-> "$push", pushed |-> <<comment>>, list |-> Append(comments, comment)]

\* POST /tweets/:id/comment after findById: push, save, respond
postComment(r) ==
    /\ reqs[r].pc = "found" /\ reqs[r].route = "comment"
    /\ LET id == reqs[r].id
           comment == [username |-> reqs[r].user.username,
                       text |-> trim(trim(reqs[r].text.val)), createdAt |-> clock]
           p == pushComment(reqs[r].doc.comments, comment)
           s == save(tweets[id], reqs[r].doc, "comments", p.atomic, p.list, p.pushed)
           status == IF validText(comment.text) /\ s.ok THEN 200 ELSE 500
       IN  /\ tweets' = IF validText(comment.text)
                         THEN [tweets EXCEPT ![id] = s.tweet] ELSE tweets
           /\ answered(r, "comment", status, IF status = 200 THEN p.list ELSE <<>>)
           /\ last' = record(r, status, tweets[id].comments)
           /\ UNCHANGED <<page, revision, users, session, clock>>

\* ---------------------------------------------------------------- the feeds
\* .sort({ createdAt: -1 }): newest first; tweets of one createdAt are left in
\* the order of the collection
sortByCreatedAt(docs) ==
    LET n == Len(docs)
        place == [i \in 1..n |->
                    Cardinality({j \in 1..n : docs[j].createdAt > docs[i].createdAt})
                    + Cardinality({j \in 1..(i - 1) : docs[j].createdAt = docs[i].createdAt})
                    + 1]
    IN  [k \in 1..n |-> docs[CHOOSE i \in 1..n : place[i] = k]]

limit(docs, n) == SubSeq(docs, 1, IF Len(docs) < n THEN Len(docs) ELSE n)

\* Tweet.find().sort({ createdAt: -1 }), with .limit(50) in part_001 only
findRecent(rev, docs) ==
    IF rev = "part_001" THEN limit(sortByCreatedAt(docs), FEED_LIMIT)
    ELSE sortByCreatedAt(docs)

\* Tweet.find({ username }).sort({ createdAt: -1 })
findAnyUsername(docs, username) == sortByCreatedAt(docs)
findByUsername(docs, username) ==
    sortByCreatedAt(SelectSeq(docs, LAMBDA t : t.username = username))

\* GET /tweets
getTweets(r) ==
    /\ reqs[r].pc = "auth" /\ reqs[r].route = "feed"
    /\ IF ~userExists(r) THEN dangling(r)
       ELSE /\ answered(r, "feed", 200, findRecent(revision, tweets))
            /\ last' = record(r, 200, <<>>)
            /\ UNCHANGED <<page, revision, users, session, tweets, clock>>

\* GET /profile and GET /profile/:username (part_001): the user is looked up,
\* by the session's id or by the name in the path; a missing user is
\* redirected to /home, any other gets the profile view with the user's tweets
getProfile(r) ==
    /\ reqs[r].pc = "auth" /\ reqs[r].route \in {"profile", "profile/:username"}
    /\ IF ~userExists(r) THEN dangling(r)
       ELSE LET found == IF reqs[r].route = "profile"
                         THEN {u \in users : u._id = reqs[r].user._id}
                         ELSE {u \in users : u.username = ProfileNames[reqs[r].id]}
            IN  /\ IF found = {}
                   THEN answered(r, reqs[r].route, 302, <<>>)
                   ELSE answered(r, reqs[r].route, 200,
                                 findByUsername(tweets, (CHOOSE u \in found : TRUE).username))
                /\ last' = record(r, 200, <<>>)
                /\ UNCHANGED <<page, revision, users, session, tweets, clock>>

\* a reading request arrives; part_002 has no profile routes
ArriveRead(r) ==
    \E s \in Sessions, route \in ReadRoutes :
        \E id \in (IF route = "profile/:username" THEN 1..Len(ProfileNames) ELSE {1}) :
            /\ route # "feed" => revision = "part_001"
            /\ requireLogin(r, s, route, id, Undefined)
            /\ UNCHANGED page

\* ------------------------------------------------------------- time labels
\* Where labels are computed, a Date is a record [s, ms]: whole seconds and
\* the milliseconds 0..999 on top of them, so that a difference of many years
\* stays within the integers of the model checker.
\* Math.floor((now - date) / 1000)
secondsBetween(date, now) == (now.s - date.s) + ((now.ms - date.ms) \div 1000)

\* `${n}`: the decimal digits of an integer
RECURSIVE toDigits(_)
toDigits(n) == IF n < 10 THEN <<48 + n>> ELSE toDigits(n \div 10) \o <<48 + (n % 10)>>

toString(n) == IF n < 0 THEN <<45>> \o toDigits(0 - n) ELSE toDigits(n)

\* the intervals of the timeAgo virtual: y, mo, w, d, h, m
intervalsNoMonth ==
    << [label |-> <<121>>, seconds |-> 31536000],
       [label |-> <<119>>, seconds |-> 604800],
       [label |-> <<100>>, seconds |-> 86400],
       [label |-> <<104>>, seconds |-> 3600],
       [label |-> <<109>>, seconds |-> 60] >>
intervals ==
    << [label |-> <<121>>, seconds |-> 31536000],
       [label |-> <<109, 111>>, seconds |-> 2592000],
       [label |-> <<119>>, seconds |-> 604800],
       [label |-> <<100>>, seconds |-> 86400],
       [label |-> <<104>>, seconds |-> 3600],
       [label |-> <<109>>, seconds |-> 60] >>

\* for (const i of intervals) ..., from interval k on
RECURSIVE forIntervals(_, _)
forIntervals(seconds, k) ==
    IF k > Len(intervals) THEN toString(seconds) \o <<115>>
    ELSE LET count == seconds \div intervals[k].seconds
         IN  IF count >= 1 THEN toString(count) \o intervals[k].label
             ELSE forIntervals(seconds, k + 1)

\* tweetSchema.virtual('timeAgo')
timeAgo(createdAt, now) == forIntervals(secondsBetween(createdAt, now), 1)

\* the client's formatTimeAgo (src/client/scripts/scripts.js)
formatTimeAgo(tweetDate, now) ==
    LET diffInSeconds == secondsBetween(tweetDate, now)
        diffInMinutes == diffInSeconds \div 60
        diffInHours == diffInMinutes \div 60
        diffInDays == diffInHours \div 24
    IN  IF diffInSeconds < 60 THEN toString(diffInSeconds) \o <<115>>
        ELSE IF diffInMinutes < 60 THEN toString(diffInMinutes) \o <<109>>
        ELSE IF diffInHours < 24 THEN toString(diffInHours) \o <<104>>
        ELSE toString(diffInDays) \o <<100>>

\* the time is now `now`, not earlier than it was
passes(now) ==
    /\ secondsBetween(clock, now) >= 0
    /\ now.s = clock.s => now.ms >= clock.ms
    /\ clock' = now

\* the server serializes tweet 1 (toJSON with virtuals) at time now
toJSON(now) ==
    /\ passes(now)
    /\ resp' = [route |-> "timeAgo", status |-> 200,
                body |-> timeAgo(tweets[1].createdAt, now)]
    /\ UNCHANGED <<page, revision, users, session, tweets, reqs, last>>

\* the client renders tweet 1 at time now
renderTweet(now) ==
    /\ passes(now)
    /\ resp' = [route |-> "formatTimeAgo", status |-> 200,
                body |-> formatTimeAgo(tweets[1].createdAt, now)]
    /\ UNCHANGED <<page, revision, users, session, tweets, reqs, last>>

\* ------------------------------------------------- the helpers of the model
\* tweetSchema.methods.addLike of part_000: likes are user ids, compared as
\* strings
addLikeById(likes, userId) ==
    LET uid == toString(userId)
    IN  IF \E i \in 1..Len(likes) : toString(likes[i]) = uid
        THEN [added |-> FALSE, list |-> likes]
        ELSE [added |-> TRUE, list |-> Append(likes, userId)]

\* tweet.addLike(...) and tweet.addRetweet(...) called on tweet 1 for a user;
\* resp holds what the call returned, last who called and on which array
callAddLike(user) ==
    /\ clock < MaxRequests
    /\ clock' = clock + 1
    /\ LET res == IF revision = "part_001" THEN addLikeById(tweets[1].likes, user._id)
                  ELSE addLike(tweets[1].likes, user.username)
       IN  /\ tweets' = [tweets EXCEPT ![1].likes = res.list]
           /\ resp' = [route |-> "addLike", status |-> 0, body |-> <<res.added>>]
           /\ last' = [user |-> user, id |-> 1, before |-> tweets[1].likes]
    /\ UNCHANGED <<page, revision, users, session, reqs>>

callAddRetweet(user) ==
    /\ clock < MaxRequests
    /\ clock' = clock + 1
    /\ LET res == addRetweet(tweets[1].retweets, user.username)
       IN  /\ tweets' = [tweets EXCEPT ![1].retweets = res.list]
           /\ resp' = [route |-> "addRetweet", status |-> 0, body |-> <<res.added>>]
           /\ last' = [user |-> user, id |-> 1, before |-> tweets[1].retweets]
    /\ UNCHANGED <<page, revision, users, session, reqs>>

\* sanitizeTweetText(raw) is called, once; reqs[1].text holds the argument,
\* resp what the call returned
sanitize(raw) ==
    /\ resp = NoResp
    /\ reqs' = [reqs EXCEPT ![1].text = raw]
    /\ resp' = [route |-> "sanitizeTweetText", status |-> 0,
                body |-> sanitizeTweetText(raw)]
    /\ UNCHANGED <<page, revision, users, session, tweets, clock, last>>

\* await User.findById(...) in requireLogin rejects (the database fails).
\* requireLogin has no try block, so the promise it returned rejects: a
\* router that ignores the promise of a middleware leaves the request without
\* a response (and the rejection unhandled), a router that forwards a
\* rejection to its error handler answers 500.
lookupFails(r) ==
    /\ reqs[r].pc = "auth"
    /\ \/ /\ reqs' = [reqs EXCEPT ![r].pc = "unanswered"]
          /\ UNCHANGED <<resp, last>>
       \/ /\ answered(r, reqs[r].route, 500, <<>>)
          /\ last' = record(r, 500, <<>>)
    /\ UNCHANGED <<page, revision, users, session, tweets, clock>>

\* a request arrives with one of the sessions, routes, ids and texts
Arrive(r, sessions, routes, ids, texts, comments) ==
    \E s \in sessions, route \in routes :
        \E id \in (IF route = "tweets" THEN {1} ELSE ids),
           text \in (IF route = "tweets" THEN texts
                     ELSE IF route = "comment" THEN comments ELSE {Undefined}) :
            requireLogin(r, s, route, id, text) /\ UNCHANGED page

Step(r) ==
    \/ postTweets(r)
    \/ findById(r)
    \/ postLike(r)
    \/ postRetweet(r)
    \/ postComment(r)

\* ---------------------------------------------------------------- accounts
\* The routes on accounts are the same in part_001, part_002 (lines 211-314)
\* and src/server/index.js, but for what a refused login answers and for the
\* signup of index.js, which does not log the new user in.
AuthRevisions == Revisions \cup {"index.js"}

\* the forms submitted: a name that is taken and one that is free, a field
\* left out, a confirmation that differs; the right and the wrong password,
\* a name that is unknown until it signs up, a field left out
SignupForms ==
    { [username |-> "alice", password |-> "pc", confirmPassword |-> "pc"],
      [username |-> "carol", password |-> "pc", confirmPassword |-> "pc"],
      [username |-> "carol", password |-> "", confirmPassword |-> "pc"],
      [username |-> "carol", password |-> "pc", confirmPassword |-> "pd"] }

LoginForms ==
    { [username |-> "alice", password |-> "pa", confirmPassword |-> ""],
      [username |-> "alice", password |-> "pc", confirmPassword |-> ""],
      [username |-> "carol", password |-> "pc", confirmPassword |-> ""],
      [username |-> "", password |-> "pa", confirmPassword |-> ""] }

\* a request arrives on a free slot
admit(r) ==
    /\ reqs[r].pc = "idle"
    /\ \A q \in 1..(r - 1) : reqs[q].pc # "idle"
    /\ clock < MaxRequests
    /\ clock' = clock + 1

\* a route without requireLogin runs up to its first await
awaits(r, s, route, form) ==
    /\ reqs' = [reqs EXCEPT ![r] =
                  [pc |-> "findOne", route |-> route, sess |-> s, user |-> NoUser,
                   id |-> clock + 1, text |-> Undefined, doc |-> NoDoc, form |-> form]]
    /\ UNCHANGED <<resp, last>>

\* User.findOne({ username }): the user of that name saved first, or none
findOne(username) ==
    LET found == {u \in users : u.username = username}
    IN  IF found = {} THEN NoUser
        ELSE CHOOSE u \in found : \A v \in found : u._id <= v._id

\* POST /signup up to await User.findOne
postSignup(r, s, form) ==
    /\ admit(r)
    /\ IF \/ form.username = "" \/ form.password = "" \/ form.confirmPassword = ""
          \/ form.password # form.confirmPassword
       THEN answered(r, "signup", 302, <<>>) /\ last' = NoLast
       ELSE awaits(r, s, "signup", form)
    /\ UNCHANGED <<page, revision, users, session, tweets>>

\* POST /signup after User.findOne, up to await bcrypt.hash
signupFindOne(r) ==
    /\ reqs[r].pc = "findOne" /\ reqs[r].route = "signup"
    /\ IF findOne(reqs[r].form.username) # NoUser
       THEN answered(r, "signup", 302, <<>>) /\ last' = NoLast
       ELSE reqs' = [reqs EXCEPT ![r].pc = "save"] /\ UNCHANGED <<resp, last>>
    /\ UNCHANGED <<page, revision, users, session, tweets, clock>>

\* POST /signup from new User(...) on: newUser.save(), the session, the
\* response.  The User model (./models/user) is not part of the sources: when
\* a user of that name was saved meanwhile, save either inserts a second one
\* or is rejected by an index on the name, and the catch block answers 500.
signupSave(r) ==
    /\ reqs[r].pc = "save" /\ reqs[r].route = "signup"
    /\ LET newUser == [_id |-> 10 + reqs[r].id, username |-> reqs[r].form.username,
                       password |-> hash(reqs[r].form.password)]
       IN  \/ /\ users' = users \cup {newUser}
              /\ session' = IF revision = "index.js" THEN session
                            ELSE [session EXCEPT ![reqs[r].sess] = newUser]
              /\ answered(r, "signup", 302, <<>>)
           \/ /\ findOne(reqs[r].form.username) # NoUser
              /\ UNCHANGED <<users, session>>
              /\ answered(r, "signup", 500, <<>>)
    /\ last' = NoLast
    /\ UNCHANGED <<page, revision, tweets, clock>>

\* what POST /login answers when it refuses: index.js redirects to /login,
\* the other two render the login page
refused == IF revision = "index.js" THEN 302 ELSE 200

\* POST /login up to await User.findOne
postLogin(r, s, form) ==
    /\ admit(r)
    /\ IF form.username = "" \/ form.password = ""
       THEN answered(r, "login", refused, <<>>) /\ last' = NoLast
       ELSE awaits(r, s, "login", form)
    /\ UNCHANGED <<page, revision, users, session, tweets>>

\* POST /login after User.findOne, up to await bcrypt.compare
loginFindOne(r) ==
    /\ reqs[r].pc = "findOne" /\ reqs[r].route = "login"
    /\ LET user == findOne(reqs[r].form.username)
       IN  IF user = NoUser
           THEN answered(r, "login", refused, <<>>) /\ last' = NoLast
           ELSE /\ reqs' = [reqs EXCEPT ![r].pc = "compare", ![r].user = user]
                /\ UNCHANGED <<resp, last>>
    /\ UNCHANGED <<page, revision, users, session, tweets, clock>>

\* POST /login after bcrypt.compare
loginCompare(r) ==
    /\ reqs[r].pc = "compare" /\ reqs[r].route = "login"
    /\ LET user == reqs[r].user
           isMatch == compare(reqs[r].form.password, user.password)
       IN  IF ~isMatch
           THEN answered(r, "login", refused, <<>>) /\ UNCHANGED session
           ELSE /\ session' = [session EXCEPT ![reqs[r].sess] = user]
                /\ answered(r, "login", 302, <<>>)
    /\ last' = NoLast
    /\ UNCHANGED <<page, revision, users, tweets, clock>>

\* GET /logout up to req.session.destroy, which calls back later
getLogout(r, s) ==
    /\ admit(r)
    /\ reqs' = [reqs EXCEPT ![r] =
                  [pc |-> "destroy", route |-> "logout", sess |-> s, user |-> session[s],
                   id |-> 1, text |-> Undefined, doc |-> NoDoc, form |-> NoForm]]
    /\ UNCHANGED <<resp, last>>
    /\ UNCHANGED <<page, revision, users, session, tweets>>

\* the callback of req.session.destroy: the session is gone from the store,
\* the cookie is cleared and the request redirected to /
destroyed(r) ==
    /\ reqs[r].pc = "destroy" /\ reqs[r].route = "logout"
    /\ session' = [session EXCEPT ![reqs[r].sess] = NoUser]
    /\ answered(r, "logout", 302, <<>>)
    /\ last' = NoLast
    /\ UNCHANGED <<page, revision, users, tweets, clock>>

\* GET /home, behind requireLogin
getHome(r) ==
    /\ reqs[r].pc = "auth" /\ reqs[r].route = "home"
    /\ IF ~userExists(r) THEN dangling(r)
       ELSE /\ answered(r, "home", 200, <<>>)
            /\ last' = NoLast
            /\ UNCHANGED <<page, revision, users, session, tweets, clock>>

\* a user is deleted from the database while sessions persist
userRemoved ==
    /\ \E u \in users : users' = users \ {u}
    /\ UNCHANGED <<page, revision, session, tweets, reqs, clock, resp, last>>

\* ------------------------------------------------------------ the feed page
\* scripts.js holds two DOMContentLoaded listeners, each with its own
\* renderTweet and click handlers: the first at lines 1-176, the second at
\* lines 185-568.  A page runs one of them.
Scripts == {"first", "second"}
Buttons == {"like", "comment", "retweet"}
pathOf == [like |-> "likes", comment |-> "comments", retweet |-> "retweets"]

\* JSON values: arrays and objects of one key, next to Str, Num and Undefined
Arr(list) == [type |-> "array", val |-> list]
Obj(key, value) == [type |-> "object", key |-> key, val |-> value]
NaN == [type |-> "NaN", val |-> <<>>]

\* res.json({ likes: tweet.likes }), and the same for comments and retweets
resJson(route, list) == Obj(pathOf[route], Arr(list))

\* data.likes: the value under a key, undefined when the object has none
get(data, key) == IF data.type = "object" /\ data.key = key THEN data.val ELSE Undefined

\* `${x}` for a number, an object and undefined
ObjectObject == <<91, 111, 98, 106, 101, 99, 116, 32, 79, 98, 106, 101, 99, 116, 93>>
template(x) ==
    IF x.type = "number" THEN toString(x.val[1])
    ELSE IF x.type = "object" THEN ObjectObject
    ELSE <<117, 110, 100, 101, 102, 105, 110, 101, 100>>

IsDigit(c) == c >= 48 /\ c <= 57

\* (\d+) at the start of s
leadingDigits(s) ==
    LET k == CHOOSE k \in 0..Len(s) :
                 /\ \A i \in 1..k : IsDigit(s[i])
                 /\ k = Len(s) \/ ~IsDigit(s[k + 1])
    IN  SubSeq(s, 1, k)

RECURSIVE digitsValue(_)
digitsValue(s) ==
    IF s = <<>> THEN 0 ELSE digitsValue(SubSeq(s, 1, Len(s) - 1)) * 10 + (s[Len(s)] - 48)

\* parseInt(s, 10) of a string without sign
parseInt(s) ==
    LET d == leadingDigits(trim(s))
    IN  IF d = <<>> THEN NaN ELSE Num(digitsValue(d))

\* s.split(" ").pop()
lastWord(s) ==
    LET k == CHOOSE k \in 0..Len(s) :
                 /\ k = 0 \/ s[k] = 32
                 /\ \A i \in (k + 1)..Len(s) : s[i] # 32
    IN  SubSeq(s, k + 1, Len(s))

\* The text a button shows after its icon.  renderTweet writes the length of
\* the tweet's array there.
renderCount(x) ==
    toString(IF x.type = "array" THEN Len(x.val)
             ELSE IF x.type = "number" THEN x.val[1] ELSE 0)

\* the count a click handler reads back from its button
currentCount(script, text) ==
    IF script = "first"
    THEN LET match == leadingDigits(trim(text))
         IN  IF match = <<>> THEN 0 ELSE parseInt(match).val[1]
    ELSE LET n == parseInt(lastWord(trim(text)))
         IN  IF n.type = "NaN" THEN 0 ELSE n.val[1]

\* what a handler writes on its button before it awaits fetch: the handlers
\* of the first listener and the comment and retweet handlers of the second
\* show one more; the like handler of the second writes nothing
optimistic(script, button, text) ==
    IF script = "second" /\ button = "like" THEN text
    ELSE toString(currentCount(script, text) + 1)

\* what a handler writes on its button when res.ok: the like and retweet
\* handlers read data.likes and data.retweets, the comment handler takes the
\* whole body for the array
onOk(script, button, data) ==
    LET x == IF button = "comment" THEN data ELSE get(data, pathOf[button])
    IN  IF script = "first" THEN renderCount(x)
        ELSE IF x.type = "array" THEN toString(Len(x.val)) ELSE template(x)

\* A click on a button of the tweet the page shows: the handler runs up to
\* its await of fetch, and the request arrives at the server.  The comment
\* handler returns before that when the prompt gave no text.
click(button, commentText) ==
    /\ page.script # "none" /\ page.fetch # "pending"
    /\ button = "comment" => commentText.type = "string" /\ Len(commentText.val) > 0
    /\ page' = [page EXCEPT !.button = button, !.fetch = "pending",
                            !.before = page.shown[button],
                            !.shown[button] = optimistic(page.script, button, @)]
    /\ requireLogin(1, page.sess, button, page.id,
                    IF button = "comment" THEN commentText ELSE Undefined)

\* fetch resolves with the server's response.  A redirect is followed to the
\* login page, whose HTML answers 200: res.ok holds and res.json() rejects,
\* which the catch block logs.
fetchResolves ==
    /\ page.script # "none" /\ page.fetch = "pending"
    /\ reqs[1].pc = "idle" /\ resp.status # -1
    /\ LET ok == resp.status >= 200 /\ resp.status <= 299
       IN  page' = [page EXCEPT
                      !.fetch = IF ok THEN "ok"
                                ELSE IF resp.status = 302 THEN "no json" ELSE "not ok",
                      !.shown[page.button] =
                          IF ok THEN onOk(page.script, page.button,
                                          resJson(resp.route, resp.body))
                          ELSE @]
    /\ UNCHANGED <<revision, users, session, tweets, reqs, clock, resp, last>>

\* fetch rejects (the network fails, or no response ever comes): the catch
\* block logs the error
fetchRejects ==
    /\ page.script # "none" /\ page.fetch = "pending"
    /\ page' = [page EXCEPT !.fetch = "rejected"]
    /\ UNCHANGED <<revision, users, session, tweets, reqs, clock, resp, last>>

\* requests overlap: any slot may take its next step
Next == \E r \in Slots : Arrive(r, Sessions, Routes, TweetIds, {Hi}, CommentTexts) \/ Step(r)

Spec == Init /\ [][Next]_vars

\* one request at a time: only the first slot is used
NextSeq == Arrive(1, Sessions, Routes, ParamIds, {Hi}, CommentTexts) \/ Step(1)

SpecSeq == Init /\ [][NextSeq]_vars

\* the create and comment routes, one request at a time, on more comment texts
NextComment ==
    \/ Arrive(1, Sessions, {"tweets", "comment"}, TweetIds, {Hi}, MoreCommentTexts)
    \/ postTweets(1)
    \/ findById(1)
    \/ postComment(1)

SpecComment == Init /\ [][NextComment]_vars

\* the create route alone, one request at a time, on every kind of text, from
\* one session that is logged in and one that is not
NextCreate == Arrive(1, {"sa", "anon"}, {"tweets"}, {}, TweetTexts, {}) \/ postTweets(1)

SpecCreate == Init /\ [][NextCreate]_vars

\* the reading routes, one request at a time, on a collection of n tweets of
\* two authors, created one per tick before the first request; in the shuffled
\* collection every other tweet was saved before the one created just before it
FeedSizes == {0, 1, 2, 3, FEED_LIMIT, MaxFeed}

Store(n, shuffled) ==
    [i \in 1..n |->
        [text |-> Hi.val, username |-> IF i % 3 = 0 THEN "bob" ELSE "alice",
         likes |-> <<>>, comments |-> <<>>, retweets |-> <<>>,
         createdAt |-> (IF ~shuffled THEN i
                        ELSE IF i % 2 = 0 THEN i - 1
                        ELSE IF i < n THEN i + 1 ELSE i) - n - 1,
         v |-> 0]]

InitFeed ==
    /\ revision \in Revisions
    /\ users = {Alice, Bob}
    /\ session = [s \in Sessions |->
                    IF s = "sa" THEN Alice ELSE IF s = "sb" THEN Bob ELSE NoUser]
    /\ \E n \in FeedSizes, shuffled \in BOOLEAN : tweets = Store(n, shuffled)
    /\ reqs = [r \in Slots |-> Idle]
    /\ clock = 0
    /\ resp = NoResp
    /\ last = NoLast
    /\ page = NoPage

NextFeed == ArriveRead(1) \/ getTweets(1) \/ getProfile(1)

SpecFeed == InitFeed /\ [][NextFeed]_vars

\* the time labels of one tweet, read at later and later times: the elapsed
\* seconds lie around every unit and its multiples, the milliseconds on
\* either side of the tweet's
Elapsed ==
    { 0, 1, 45, 59, 60, 61, 119, 120, 125, 3599, 3600, 7199, 7200, 86399, 86400,
      90000, 172800, 604799, 604800, 1209600, 2591999, 2592000, 3024000,
      5184000, 31535999, 31536000, 63072000, 2000000000 }

CreatedAts == { [s |-> 100, ms |-> 0], [s |-> 100, ms |-> 500] }

Nows(createdAt) ==
    { [s |-> createdAt.s + e, ms |-> ms] : e \in Elapsed, ms \in {0, 499, 500, 999} }

InitTime ==
    /\ revision \in Revisions
    /\ users = {Alice, Bob}
    /\ session = [s \in Sessions |->
                    IF s = "sa" THEN Alice ELSE IF s = "sb" THEN Bob ELSE NoUser]
    /\ \E createdAt \in CreatedAts :
          /\ tweets = <<[text |-> Hi.val, username |-> "alice", likes |-> <<>>,
                         comments |-> <<>>, retweets |-> <<>>,
                         createdAt |-> createdAt, v |-> 0]>>
          /\ clock = createdAt
    /\ reqs = [r \in Slots |-> Idle]
    /\ resp = NoResp
    /\ last = NoLast
    /\ page = NoPage

NextTime ==
    \/ \E now \in Nows(tweets[1].createdAt) : toJSON(now)
    \/ \E now \in Nows(tweets[1].createdAt) : renderTweet(now)

SpecTime == InitTime /\ [][NextTime]_vars


\* one page showing one tweet, run by either listener of scripts.js, with a
\* session that is logged in or one that is not (any more); its user clicks
\* the three buttons, one click at a time
ShownTweet ==
    [text |-> Hi.val, username |-> "bob", likes |-> <<>>,
     comments |-> <<[username |-> "bob", text |-> Hi.val, createdAt |-> 0]>>,
     retweets |-> <<[username |-> "bob"]>>, createdAt |-> 0, v |-> 0]

InitClient ==
    /\ revision \in Revisions
    /\ users = {Alice, Bob}
    /\ session = [s \in Sessions |->
                    IF s = "sa" THEN Alice ELSE IF s = "sb" THEN Bob ELSE NoUser]
    /\ tweets = <<ShownTweet>>
    /\ reqs = [r \in Slots |-> Idle]
    /\ clock = 0
    /\ resp = NoResp
    /\ last = NoLast
    /\ \E script \in Scripts, s \in {"sa", "anon"} :
          page = [script |-> script, sess |-> s, id |-> 1,
                  shown |-> [b \in Buttons |-> renderCount(Arr(tweets[1][pathOf[b]]))],
                  button |-> "like", fetch |-> "none", before |-> <<>>]

NextClient ==
    \/ \E button \in Buttons, commentText \in CommentTexts : click(button, commentText)
    \/ findById(1)
    \/ postLike(1)
    \/ postRetweet(1)
    \/ postComment(1)
    \/ fetchResolves
    \/ fetchRejects

SpecClient == InitClient /\ [][NextClient]_vars

\* the accounts: signups, logins, logouts and requests for /home overlap, from
\* two browsers that start without a session user
InitAuth ==
    /\ revision \in AuthRevisions
    /\ users = {Alice}
    /\ session = [s \in Sessions |-> NoUser]
    /\ tweets = <<>>
    /\ reqs = [r \in Slots |-> Idle]
    /\ clock = 0
    /\ resp = NoResp
    /\ last = NoLast
    /\ page = NoPage

NextAuth ==
    \/ \E r \in Slots :
          \/ \E s \in {"sa", "sb"}, form \in SignupForms : postSignup(r, s, form)
          \/ signupFindOne(r)
          \/ signupSave(r)
          \/ \E s \in {"sa", "sb"}, form \in LoginForms : postLogin(r, s, form)
          \/ loginFindOne(r)
          \/ loginCompare(r)
          \/ \E s \in {"sa", "sb"} : getLogout(r, s)
          \/ destroyed(r)
          \/ \E s \in {"sa", "sb"} : requireLogin(r, s, "home", 1, Undefined) /\ UNCHANGED page
          \/ getHome(r)

SpecAuth == InitAuth /\ [][NextAuth]_vars

\* sessions that outlive their users: requests for /home overlap, from the
\* browsers of alice and bob and one without a session user, while users are
\* deleted
NextGone ==
    \/ \E r \in Slots :
          \/ \E s \in Sessions : requireLogin(r, s, "home", 1, Undefined) /\ UNCHANGED page
          \/ getHome(r)
    \/ userRemoved

SpecGone == Init /\ [][NextGone]_vars

\* the helpers of the Tweet model, called in any order on one tweet whose
\* arrays hold up to MaxEntries entries of two users, also one user twice
MaxEntries == 2

Entries(n, items) == UNION { [1..k -> items] : k \in 0..n }

InitHelpers ==
    /\ revision \in Revisions
    /\ users = {Alice, Bob}
    /\ session = [s \in Sessions |->
                    IF s = "sa" THEN Alice ELSE IF s = "sb" THEN Bob ELSE NoUser]
    /\ \E likes \in Entries(MaxEntries,
                             IF revision = "part_001" THEN {Alice._id, Bob._id}
                             ELSE {[username |-> "alice"], [username |-> "bob"]}),
          retweets \in Entries(MaxEntries,
                                {[username |-> "alice"], [username |-> "bob"]}) :
          tweets = <<[text |-> Hi.val, username |-> "alice", likes |-> likes,
                      comments |-> <<>>, retweets |-> retweets, createdAt |-> 0,
                      v |-> 0]>>
    /\ reqs = [r \in Slots |-> Idle]
    /\ clock = 0
    /\ resp = NoResp
    /\ last = NoLast
    /\ page = NoPage

NextHelpers ==
    \/ \E user \in {Alice, Bob} : callAddLike(user)
    \/ \E user \in {Alice, Bob} : callAddRetweet(user)

SpecHelpers == InitHelpers /\ [][NextHelpers]_vars

\* sanitizeTweetText on every string of up to MaxLen characters out of a
\* letter, a space, a tab, a line feed, a carriage return, a bell and a
\* delete, and on values that are no strings
MaxLen == 4

Chars == {97, 32, 9, 10, 13, 7, 127}

Raws == {Undefined, Num(5)} \cup { Str(t) : t \in UNION { [1..k -> Chars] : k \in 0..MaxLen } }

NextSanitize == \E raw \in Raws : sanitize(raw)

SpecSanitize == Init /\ [][NextSanitize]_vars

\* like and retweet requests, one at a time, on a store of one tweet, with
\* ids of that tweet, of no tweet and malformed, and a user lookup that may
\* fail.  A handler waiting on a lookup or a save is resumed when that
\* settles, so its next step is taken eventually.
InitLive ==
    /\ revision \in Revisions
    /\ users = {Alice, Bob}
    /\ session = [s \in Sessions |->
                    IF s = "sa" THEN Alice ELSE IF s = "sb" THEN Bob ELSE NoUser]
    /\ tweets = <<ShownTweet>>
    /\ reqs = [r \in Slots |-> Idle]
    /\ clock = 0
    /\ resp = NoResp
    /\ last = NoLast
    /\ page = NoPage

NextLive ==
    \/ Arrive(1, Sessions, {"like", "retweet"}, ParamIds, {}, {})
    \/ findById(1)
    \/ postLike(1)
    \/ postRetweet(1)
    \/ lookupFails(1)

SpecLive ==
    /\ InitLive /\ [][NextLive]_vars
    /\ WF_vars(findById(1) \/ postLike(1) \/ postRetweet(1))


\* ------------------------------------------------------------------ claims
\* the entry a user has in a like collection, and in a retweet collection
likeEntry(user) == IF revision = "part_001" THEN user._id ELSE [username |-> user.username]
retweetEntry(user) == [username |-> user.username]

Members(list) == {list[i] : i \in 1..Len(list)}
NoDuplicates(list) == \A i, j \in 1..Len(list) : i # j => list[i] # list[j]
IsPrefix(a, b) == Len(a) <= Len(b) /\ SubSeq(b, 1, Len(a)) = a

\* slot r answers, in this step, the request of the given route it was saving
Saves(r, route) ==
    reqs[r].pc = "found" /\ reqs[r].route = route /\ reqs'[r].pc = "idle"

\* C1: two successful like requests in a row by the same user on the same
\* tweet, with no request between them, leave the tweet's like collection with
\* the members and the count it had before the first.
C1_LikeTwiceRestores ==
    [][\A r \in Slots :
         (/\ Saves(r, "like") /\ resp'.status = 200
          /\ last # NoLast /\ last.user = reqs[r].user /\ last.id = reqs[r].id)
         => /\ Members(tweets'[reqs[r].id].likes) = Members(last.before)
            /\ Len(tweets'[reqs[r].id].likes) = Len(last.before)]_vars

\* C2: a successful like request removes the user when the likes it read hold
\* the user (count one less), adds the user otherwise (count one more), and
\* answers with the like collection as persisted after the change.
C2_LikeToggles ==
    [][\A r \in Slots :
         (Saves(r, "like") /\ resp'.status = 200)
         => LET id == reqs[r].id
                u == likeEntry(reqs[r].user)
            IN  /\ IF u \in Members(reqs[r].doc.likes)
                   THEN /\ u \notin Members(tweets'[id].likes)
                        /\ Len(tweets'[id].likes) = Len(tweets[id].likes) - 1
                   ELSE /\ u \in Members(tweets'[id].likes)
                        /\ Len(tweets'[id].likes) = Len(tweets[id].likes) + 1
                /\ resp'.body = tweets'[id].likes]_vars

\* C3: a retweet request is answered 200 and toggles the requester's username
\* in the retweet collection: removed (count one less) when the retweets it
\* read hold it, added (count one more) otherwise; a first retweet of a fresh
\* tweet, also by its author, gives a count of 1.
C3_RetweetToggles ==
    [][\A r \in Slots :
         Saves(r, "retweet")
         => LET id == reqs[r].id
                u == retweetEntry(reqs[r].user)
            IN  /\ resp'.status = 200
                /\ IF u \in Members(reqs[r].doc.retweets)
                   THEN /\ u \notin Members(tweets'[id].retweets)
                        /\ Len(tweets'[id].retweets) = Len(tweets[id].retweets) - 1
                   ELSE /\ u \in Members(tweets'[id].retweets)
                        /\ Len(tweets'[id].retweets) = Len(tweets[id].retweets) + 1
                /\ tweets[id].retweets = <<>> => Len(tweets'[id].retweets) = 1]_vars

\* C4: no persisted like collection holds two entries of one liker.
C4_LikesUnique == \A i \in 1..Len(tweets) : NoDuplicates(tweets[i].likes)

\* C5: no persisted retweet collection holds two entries of one username.
C5_RetweetsUnique == \A i \in 1..Len(tweets) : NoDuplicates(tweets[i].retweets)

\* C6: a toggle is one atomic read-modify-write: the collection a successful
\* like or retweet request persists is the route's toggle applied to the
\* collection persisted just before its save, so overlapping toggles amount
\* to the toggles applied one after the other.
C6_ToggleAtomic ==
    [][\A r \in Slots :
         /\ (Saves(r, "like") /\ resp'.status = 200)
            => tweets'[reqs[r].id].likes
                 = likeRoute(revision, tweets[reqs[r].id].likes, reqs[r].user).list
         /\ (Saves(r, "retweet") /\ resp'.status = 200)
            => tweets'[reqs[r].id].retweets
                 = retweetRoute(tweets[reqs[r].id].retweets, reqs[r].user).list]_vars

\* slot r's create request is answered (or abandoned) in this step
Creates(r) ==
    reqs[r].pc = "auth" /\ reqs[r].route = "tweets" /\ reqs'[r].pc = "idle"

\* C7: a create request whose sanitized text has 1 to 280 characters is
\* answered 201, persists exactly one new tweet, and the stored and the
\* returned text are the sanitized, HTML-escaped text.
C7_CreateValidSucceeds ==
    [][\A r \in Slots :
         LET text == sanitizeTweetText(reqs[r].text)
         IN  (Creates(r) /\ Len(text) >= 1 /\ Len(text) <= 280)
             => /\ resp'.status = 201
                /\ Len(tweets') = Len(tweets) + 1
                /\ SubSeq(tweets', 1, Len(tweets)) = tweets
                /\ tweets'[Len(tweets')].text = escapeHtml(text)
                /\ resp'.body.text = escapeHtml(text)]_vars

\* C8: a create request whose sanitized text is empty or longer than 280
\* characters (a missing or non-string text included) is answered 400 and
\* persists nothing.
C8_CreateInvalidRejected ==
    [][\A r \in Slots :
         LET text == sanitizeTweetText(reqs[r].text)
         IN  (Creates(r) /\ (Len(text) = 0 \/ Len(text) > 280))
             => resp'.status = 400 /\ tweets' = tweets]_vars

\* C9: every persisted tweet has a text of 1 to 280 characters.
C9_TextLengthInRange ==
    \A i \in 1..Len(tweets) : Len(tweets[i].text) >= 1 /\ Len(tweets[i].text) <= 280

\* a tweet of exactly 280 characters is stored and a too long one was refused
C9_Witness ==
    /\ \E i \in 1..Len(tweets) : Len(tweets[i].text) = 280
    /\ resp.route = "tweets" /\ resp.status \in {400, 500}

\* C10: comments are append-only: in every step, every tweet stays and its
\* comments before the step are a prefix of its comments after it.
C10_CommentsAppendOnly ==
    [][\A i \in 1..Len(tweets) :
         /\ i <= Len(tweets')
         /\ IsPrefix(tweets[i].comments, tweets'[i].comments)]_vars

\* two comment requests overlapped and both were saved: the second was
\* answered with its own comment alone, and the tweet holds both
C10_Witness ==
    \E i \in 1..Len(tweets) :
        /\ resp.route = "comment" /\ resp.status = 200
        /\ Len(tweets[i].comments) = 2
        /\ resp.body = <<tweets[i].comments[2]>>

\* C11: a successful comment request appends exactly one new entry at the end
\* of the tweet's comments, also when the author already has a comment with
\* the same text there; the entry carries the time of this request, which is
\* not before that of any earlier entry (comment order is call order).
C11_CommentNeverIdempotent ==
    [][\A r \in Slots :
         (Saves(r, "comment") /\ resp'.status = 200)
         => LET old == tweets[reqs[r].id].comments
                new == tweets'[reqs[r].id].comments
            IN  /\ Len(new) = Len(old) + 1
                /\ SubSeq(new, 1, Len(old)) = old
                /\ new[Len(new)].username = reqs[r].user.username
                /\ new[Len(new)].text = trim(reqs[r].text.val)
                /\ new[Len(new)].createdAt = clock
                /\ \A i \in 1..Len(old) : old[i].createdAt <= clock]_vars

\* the same user commented the same text twice on one tweet, and the tweet
\* holds both entries, the earlier one first
C11_Witness ==
    \E i \in 1..Len(tweets) :
        /\ resp.route = "comment" /\ resp.status = 200
        /\ Len(tweets[i].comments) = 2
        /\ tweets[i].comments[1].username = tweets[i].comments[2].username
        /\ tweets[i].comments[1].text = tweets[i].comments[2].text
        /\ tweets[i].comments[1].createdAt < tweets[i].comments[2].createdAt

\* slot r's request of the given route is answered (or abandoned) in this step
Answers(r, route) ==
    reqs[r].pc # "idle" /\ reqs[r].route = route /\ reqs'[r].pc = "idle"

\* C12: a comment request on an existing tweet whose sanitized text is empty
\* or longer than 280 characters is answered 400 and leaves the comments as
\* they are; any other is answered 200 and appends a comment whose text is the
\* sanitized text and whose time is the server's; so every persisted comment
\* has a sanitized text of 1 to 280 characters.
C12_CommentValidated ==
    [][/\ \A r \in Slots :
            (Answers(r, "comment") /\ reqs[r].id \in 1..Len(tweets))
            => LET text == sanitizeTweetText(reqs[r].text)
                   old == tweets[reqs[r].id].comments
                   new == tweets'[reqs[r].id].comments
               IN  IF Len(text) = 0 \/ Len(text) > 280
                   THEN resp'.status = 400 /\ new = old
                   ELSE /\ resp'.status = 200
                        /\ new = Append(old, [username |-> reqs[r].user.username,
                                               text |-> text, createdAt |-> clock])
       /\ \A i \in 1..Len(tweets') : \A j \in 1..Len(tweets'[i].comments) :
            LET text == tweets'[i].comments[j].text
            IN  text = sanitizeTweetText(Str(text)) /\ Len(text) >= 1 /\ Len(text) <= 280]_vars

\* C13: a like, retweet or comment request of a logged-in user that names an
\* identifier of no persisted tweet is answered 404 and changes no tweet.
C13_UnknownIdNotFound ==
    [][\A r \in Slots :
         (/\ Answers(r, "like") \/ Answers(r, "retweet") \/ Answers(r, "comment")
          /\ reqs[r].id \notin 1..Len(tweets))
         => resp'.status = 404 /\ tweets' = tweets]_vars

\* C14: a create, like, retweet or comment request that is answered with
\* anything but success leaves every persisted tweet exactly as it was.
C14_FailedMutationChangesNothing ==
    [][\A r \in Slots :
         (/\ \E route \in Routes : Answers(r, route)
          /\ resp'.status \notin {200, 201})
         => tweets' = tweets]_vars

\* a like was answered 500: its save was rejected, because the tweet had
\* changed since the request read it; the tweet holds the likes it had
C14_Witness ==
    /\ resp.route = "like" /\ resp.status = 500
    /\ \E i \in 1..Len(tweets) : tweets[i].likes # <<>> /\ tweets[i].v >= 2

\* the createdAt values of a list never increase from one entry to the next
NewestFirst(list) ==
    \A i \in 1..(Len(list) - 1) : list[i].createdAt >= list[i + 1].createdAt

\* list a holds nothing but entries of list b, each as often as b at most
Within(a, b) ==
    \A i \in 1..Len(a) :
        Cardinality({j \in 1..Len(a) : a[j] = a[i]})
            <= Cardinality({j \in 1..Len(b) : b[j] = a[i]})

\* C15: GET /tweets answers with persisted tweets, newest first by createdAt,
\* never more than 50 of them: min(50, number of tweets) tweets, none of them
\* older than a tweet that is left out.
C15_FeedNewestFirstCapped ==
    [][\A r \in Slots :
         (Answers(r, "feed") /\ resp'.status = 200)
         => LET feed == resp'.body
                n == IF Len(tweets) < FEED_LIMIT THEN Len(tweets) ELSE FEED_LIMIT
            IN  /\ Len(feed) = n
                /\ NewestFirst(feed)
                /\ Within(feed, tweets)
                /\ \A i \in 1..Len(tweets) :
                       (\E j \in 1..Len(feed) : feed[j] = tweets[i])
                       \/ (\A j \in 1..Len(feed) :
                              feed[j].createdAt >= tweets[i].createdAt)]_vars

\* C16: a profile view answers with exactly the persisted tweets whose author
\* is the profile's username (every one of them, none of another author),
\* newest first by createdAt.
C16_UserFeedExact ==
    [][\A r \in Slots :
         (/\ Answers(r, "profile") \/ Answers(r, "profile/:username")
          /\ resp'.status = 200)
         => LET username == IF reqs[r].route = "profile" THEN reqs[r].user.username
                            ELSE ProfileNames[reqs[r].id]
                feed == resp'.body
            IN  /\ NewestFirst(feed)
                /\ \A j \in 1..Len(feed) : feed[j].username = username
                /\ Within(feed, tweets)
                /\ \A i \in 1..Len(tweets) :
                       tweets[i].username = username
                       => \E j \in 1..Len(feed) : feed[j] = tweets[i]
                /\ Len(feed) = Cardinality({i \in 1..Len(tweets) :
                                               tweets[i].username = username})]_vars

\* a profile was shown with several tweets, fewer than the collection holds,
\* and the collection is not in the order of creation
C16_Witness ==
    /\ resp.route \in {"profile", "profile/:username"} /\ resp.status = 200
    /\ Len(resp.body) >= 2 /\ Len(resp.body) < Len(tweets)
    /\ \E i \in 1..(Len(tweets) - 1) : tweets[i].createdAt > tweets[i + 1].createdAt

\* C17: in every step, every persisted tweet stays and keeps its createdAt.
C17_CreatedAtImmutable ==
    [][\A i \in 1..Len(tweets) :
         /\ i <= Len(tweets')
         /\ tweets'[i].createdAt = tweets[i].createdAt]_vars

\* a tweet was liked, retweeted and commented after it was created
C17_Witness ==
    \E i \in 1..Len(tweets) :
        /\ tweets[i].likes # <<>> /\ tweets[i].retweets # <<>>
        /\ tweets[i].comments # <<>>
        /\ tweets[i].createdAt < clock

\* the formatter contract: the count of the first unit, from the year down to
\* the minute, that fits at least once into the elapsed seconds, followed by
\* the unit's label; the elapsed seconds and "s" when none fits
Units ==
    << <<31536000, <<121>>>>, <<2592000, <<109, 111>>>>, <<604800, <<119>>>>,
       <<86400, <<100>>>>, <<3600, <<104>>>>, <<60, <<109>>>> >>

Label(elapsed) ==
    LET fits == {k \in 1..Len(Units) : elapsed \div Units[k][1] >= 1}
    IN  IF fits = {} THEN toString(elapsed) \o <<115>>
        ELSE LET k == CHOOSE k \in fits : \A j \in fits : k <= j
             IN  toString(elapsed \div Units[k][1]) \o Units[k][2]

\* the whole seconds from the tweet's creation to now
ElapsedSeconds ==
    LET d == tweets[1].createdAt
    IN  IF clock.ms >= d.ms THEN clock.s - d.s ELSE clock.s - d.s - 1

\* C18: the timeAgo label of a tweet read at time now is the contract's label
\* of the whole seconds elapsed from createdAt to now, and nothing else
\* decides it.
C18_TimeAgoWalksUnits ==
    resp.route = "timeAgo" => resp.body = Label(ElapsedSeconds)

\* the label "1y" was computed two years of seconds after the second of the
\* tweet's creation, at milliseconds that lie before the tweet's
C18_Witness ==
    /\ resp.route = "timeAgo" /\ resp.body = <<49, 121>>
    /\ clock.s - tweets[1].createdAt.s = 63072000
    /\ clock.ms < tweets[1].createdAt.ms

\* C19: the client's formatTimeAgo gives the contract's label for every
\* elapsed time that is not negative.
C19_ClientFollowsContract ==
    (resp.route = "formatTimeAgo" /\ ElapsedSeconds >= 0)
    => resp.body = Label(ElapsedSeconds)

\* C20: a request (create, like, comment, retweet) that arrives without a
\* session user is redirected (302) and starts no handler: a handler starts
\* only for a request whose session carries a user, and runs as that user; an
\* arrival that starts none is answered 302 and changes no tweet; and tweets
\* change only in the step of a handler that runs as a user.
C20_MutationsRequireLogin ==
    [][/\ \A r \in Slots :
            (reqs[r].pc = "idle" /\ reqs'[r].pc # "idle")
            => /\ session[reqs'[r].sess] # NoUser
               /\ reqs'[r].user = session[reqs'[r].sess]
       /\ (clock' # clock /\ \A r \in Slots : reqs'[r].pc = reqs[r].pc)
            => /\ resp'.status = 302 /\ resp'.route \in Routes
               /\ tweets' = tweets
       /\ tweets' # tweets
            => \E r \in Slots : /\ reqs[r].pc # "idle" /\ reqs'[r].pc = "idle"
                                /\ reqs[r].user \in users]_vars

\* a request without a session user was redirected while tweets with likes
\* are persisted, and they are as they were
C20_Witness ==
    /\ resp.status = 302 /\ resp.route \in {"like", "comment", "retweet"}
    /\ \E i \in 1..Len(tweets) : tweets[i].likes # <<>>

\* C21: a like, retweet or comment click whose fetch fails (it rejects, or the
\* response is not OK) leaves the button showing what it showed before the
\* click.
C21_FailedClickKeepsCount ==
    [][(page.fetch = "pending" /\ page'.fetch \in {"rejected", "not ok"})
         => page'.shown[page.button] = page.before]_vars

\* C27: after an OK response to a like, retweet or comment click, the button
\* shows the number of entries of the array the route sent.
C27_OkClickShowsReturnedCount ==
    [][(page.fetch = "pending" /\ page'.fetch = "ok")
         => page'.shown[page.button] = toString(Len(resp.body))]_vars

\* C22: when requireLogin finds that the user of the session is gone from the
\* user store, the session is destroyed and the request redirected without the
\* handler running; when the user exists, the handler runs and answers, once,
\* and the session stays.
C22_NoDanglingSession ==
    [][\A r \in Slots :
         (reqs[r].pc = "auth" /\ reqs'[r] # reqs[r]) =>
            /\ reqs'[r].pc = "idle"
            /\ IF \E u \in users : u._id = session[reqs[r].sess]._id
               THEN /\ resp' = [route |-> "home", status |-> 200, body |-> <<>>]
                    /\ session' = session
               ELSE /\ resp' = [route |-> "home", status |-> 302, body |-> <<>>]
                    /\ session'[reqs[r].sess] = NoUser
                    /\ \A s \in Sessions \ {reqs[r].sess} : session'[s] = session[s]]_vars

\* alice was deleted and her session destroyed by a redirected request, while
\* bob's session stays
C22_Witness ==
    /\ Alice \notin users /\ session["sa"] = NoUser
    /\ Bob \in users /\ session["sb"] = Bob
    /\ resp = [route |-> "home", status |-> 302, body |-> <<>>]

\* C30: a session gets a user only from a login whose password matches the
\* stored hash of the user of that name, or from the signup that created the
\* user; a login that is refused (a field missing, the name unknown, the
\* password wrong) leaves every session as it was; a logout leaves its session
\* without a user; and a protected request is let through only when its
\* session carries a user.
C30_SessionUserOnlyByCredentials ==
    [][/\ \A s \in Sessions :
            (session'[s] # session[s] /\ session'[s] # NoUser) =>
               \E r \in Slots :
                  /\ reqs[r].sess = s /\ reqs'[r].pc = "idle"
                  /\ session'[s].username = reqs[r].form.username
                  /\ session'[s].password = hash(reqs[r].form.password)
                  /\ \/ reqs[r].route = "login" /\ reqs[r].pc = "compare"
                     \/ /\ reqs[r].route = "signup" /\ reqs[r].pc = "save"
                        /\ session'[s] \in users' \ users
       /\ (clock' = clock + 1 /\ resp'.route = "login" /\ reqs' = reqs) => session' = session
       /\ \A r \in Slots :
            (/\ reqs[r].route = "login" /\ reqs'[r].pc = "idle"
             /\ \/ /\ reqs[r].pc = "findOne"
                   /\ \A u \in users : u.username # reqs[r].form.username
                \/ /\ reqs[r].pc = "compare"
                   /\ reqs[r].user.password # hash(reqs[r].form.password))
            => session' = session
       /\ \A r \in Slots :
            (reqs[r].route = "logout" /\ reqs[r].pc = "destroy" /\ reqs'[r].pc = "idle")
            => session'[reqs[r].sess] = NoUser
       /\ \A r \in Slots :
            (reqs[r].pc = "idle" /\ reqs'[r].pc = "auth")
            => session[reqs'[r].sess] # NoUser]_vars

\* one browser logged in as alice, the other signed up as carol, and a login
\* was refused last
C30_Witness ==
    /\ session["sa"] = Alice
    /\ session["sb"].username = "carol" /\ session["sb"] \in users
    /\ resp = [route |-> "login", status |-> 200, body |-> <<>>]

\* C29: the user store never holds two users of one username, whatever
\* signups ran and however they overlapped.
C29_UsernamesUnique ==
    \A u, v \in users : u.username = v.username => u = v

\* C23: addLike and addRetweet add uniquely: called for an identity that is in
\* the array, the helper returns false and leaves the array as it is; called
\* for one that is not, it appends one entry for it and returns true; a
\* second call for the same identity right after the first changes nothing.
C23_HelpersAddUniquely ==
    [][\A path \in {"likes", "retweets"} :
         (resp'.route = (IF path = "likes" THEN "addLike" ELSE "addRetweet")
          /\ clock' = clock + 1) =>
            LET before == tweets[1][path]
                after == tweets'[1][path]
                entry == IF path = "likes" THEN likeEntry(last'.user)
                         ELSE retweetEntry(last'.user)
                again == resp.route = resp'.route /\ last.user = last'.user
            IN  /\ tweets' = [tweets EXCEPT ![1][path] = after]
                /\ IF entry \in Members(before)
                   THEN resp'.body = <<FALSE>> /\ after = before
                   ELSE resp'.body = <<TRUE>> /\ after = Append(before, entry)
                /\ again => after = before]_vars

\* addRetweet was called for bob twice in a row on an array that held alice
\* only: it holds alice and bob, and the second call returned false
C23_Witness ==
    /\ resp = [route |-> "addRetweet", status |-> 0, body |-> <<FALSE>>]
    /\ last = [user |-> Bob, id |-> 1,
               before |-> <<[username |-> "alice"], [username |-> "bob"]>>]
    /\ tweets[1].retweets = <<[username |-> "alice"], [username |-> "bob"]>>
    /\ clock = 2

\* C24: sanitizeTweetText returns the empty string for a value that is no
\* string; of a string it removes every control character but the line
\* breaks and tabs it treats next, turns each '\r\n' and each lone '\r' into
\* one '\n', makes every run of spaces and tabs within a line one space, and
\* trims.
claimedSanitize(raw) ==
    IF raw.type # "string" THEN <<>>
    ELSE LET kept == SelectSeq(raw.val, LAMBDA c : ~IsControl(c) \/ c \in {9, 13})
         IN  trim(mapLines(normalizeNewlines(kept)))

C24_SanitizeAsDescribed ==
    resp.route = "sanitizeTweetText" => resp.body = claimedSanitize(reqs[1].text)

C26_AlreadyToggledUnreachable ==
    [][\A r \in Slots :
         (Saves(r, "retweet") \/ Saves(r, "like")) => resp'.status # 400]_vars

\* a user's second retweet of a tweet was answered 200, the entry filtered
\* out and added again
C26_Witness ==
    /\ resp.route = "retweet" /\ resp.status = 200
    /\ Len(tweets) >= 1 /\ tweets[1].v = 2 /\ Len(tweets[1].retweets) = 1
    /\ tweets[1].likes = <<>> /\ tweets[1].comments = <<>>

\* C28: every request that passed the session test of a protected route is
\* answered eventually, also when the lookup of its user or of its tweet
\* fails.
C28_EveryRequestAnswered ==
    \A r \in Slots : (reqs[r].pc = "auth") ~> (reqs[r].pc = "idle")


=============================================================================
